---- MODULE Spec2Model ----
(***************************************************************************)
(* Tee & Seele backend: the journey / interaction / analyze / seed-teas    *)
(* handlers of main.py over the document store, with the needs profiler    *)
(* and the tea scorer of analyze computed as the code computes them.       *)
(***************************************************************************)
EXTENDS Integers, Sequences, FiniteSets, TLC

VARIABLES journey, interaction, tea, recommendation, an, seedPc

vars == <<journey, interaction, tea, recommendation, an, seedPc>>

\* ---------------------------------------------------------------- bounds
\* Stored interaction events / record-interaction requests accepted.
MaxEvents == 2
\* Catalog length of the arbitrary catalogs analyze is run against.
MaxCatalog == 4
\* Recommendations persisted.
MaxRecs == 2
\* Journeys started.
MaxJourneys == 1
\* Tags of the single arbitrary tea the scorer is run against.
MaxTags == 3

\* ------------------------------------------------------- Python values
\* A JSON / Python value of a payload map: an int, a str or None.
PyInt(n) == [t |-> "int", n |-> n, s |-> ""]
PyStr(x) == [t |-> "str", n |-> 0, s |-> x]
PyNone == [t |-> "none", n |-> 0, s |-> ""]

\* dict.get(k, default) on a payload map held as a set of <<key, value>> pairs.
DictGet(d, k, default) ==
    IF \E p \in d : p[1] = k THEN (CHOOSE p \in d : p[1] = k)[2] ELSE default

\* Decimal strings int() parses; any other str raises ValueError.
Digits == <<"0", "1", "2", "3", "4", "5", "6", "7", "8", "9">>

\* int(x): [raised, n].  int of an int is the int, of a decimal str its
\* value; of any other str it raises ValueError, of None TypeError.
PyIntConv(x) ==
    CASE x.t = "int" -> [raised |-> FALSE, n |-> x.n]
      [] x.t = "str" /\ (\E i \in 1..Len(Digits) : Digits[i] = x.s) ->
            [raised |-> FALSE, n |-> (CHOOSE i \in 1..Len(Digits) : Digits[i] = x.s) - 1]
      [] OTHER -> [raised |-> TRUE, n |-> 0]

\* ------------------------------------------------------------ profiler
NeedOrder == <<"calm_need", "focus_need", "uplift_need", "sleep_need">>

ZeroProfile == [calm_need |-> 0, focus_need |-> 0, uplift_need |-> 0, sleep_need |-> 0]

Bump(profile, need, k) == [profile EXCEPT ![need] = @ + k]

\* A plausible slip: the default of val.get("count", ...) is 0.
SparkCollectDefaultZero(profile, val) ==
    LET c == PyIntConv(DictGet(val, "count", PyInt(0)))
    IN  IF c.raised THEN [raised |-> TRUE, profile |-> profile]
        ELSE [raised |-> FALSE, profile |-> Bump(profile, "uplift_need", c.n)]

\* spark_collect branch: profile["uplift_need"] += int(val.get("count", 1))
SparkCollect(profile, val) ==
    LET c == PyIntConv(DictGet(val, "count", PyInt(1)))
    IN  IF c.raised THEN [raised |-> TRUE, profile |-> profile]
        ELSE [raised |-> FALSE, profile |-> Bump(profile, "uplift_need", c.n)]

\* One iteration of the loop over the interactions: [raised, profile].
ProfileStep(profile, it) ==
    LET t == it.type
        val == it.value
        ok(p) == [raised |-> FALSE, profile |-> p]
    IN  CASE t = "metaphor_pick" ->
               LET metaphor == DictGet(val, "metaphor", PyNone)
               IN  IF metaphor = PyStr("clouds") THEN ok(Bump(profile, "calm_need", 2))
                   ELSE IF metaphor = PyStr("sparks") THEN ok(Bump(profile, "uplift_need", 2))
                   ELSE IF metaphor = PyStr("roots") THEN ok(Bump(profile, "focus_need", 2))
                   ELSE ok(profile)
          [] t = "spark_collect" -> SparkCollect(profile, val)
          [] t = "maze_complete" -> ok(Bump(profile, "focus_need", 1))
          [] t = "breath_pace" ->
               LET pace == DictGet(val, "pace", PyStr("slow"))
               IN  IF pace = PyStr("slow") THEN ok(Bump(profile, "sleep_need", 1))
                   ELSE ok(Bump(profile, "calm_need", 1))
          [] t = "scene_choice" ->
               LET scene == DictGet(val, "scene", PyNone)
               IN  IF scene = PyStr("night") THEN ok(Bump(profile, "sleep_need", 1))
                   ELSE IF scene = PyStr("meadow") THEN ok(Bump(profile, "calm_need", 1))
                   ELSE ok(profile)
          [] OTHER -> ok(profile)

\* The loop `for it in interactions`: stops at the first iteration that raises.
RECURSIVE ProfileLoop(_, _)
ProfileLoop(interactions, profile) ==
    IF interactions = <<>> THEN [raised |-> FALSE, profile |-> profile]
    ELSE LET r == ProfileStep(profile, Head(interactions))
         IN  IF r.raised THEN r ELSE ProfileLoop(Tail(interactions), r.profile)

\* -------------------------------------------------------------- sorting
Reverse(s) == [i \in 1..Len(s) |-> s[Len(s) + 1 - i]]

\* Insert p = <<key, item>> into an ascending list after every entry whose key
\* is not greater (the stable position).
RECURSIVE InsertAsc(_, _)
InsertAsc(sorted, p) ==
    IF sorted = <<>> THEN <<p>>
    ELSE IF Head(sorted)[1] <= p[1] THEN <<Head(sorted)>> \o InsertAsc(Tail(sorted), p)
    ELSE <<p>> \o sorted

\* list.sort on decorated <<key, item>> pairs: ascending and stable.
RECURSIVE StableSortAsc(_)
StableSortAsc(s) ==
    IF s = <<>> THEN <<>>
    ELSE InsertAsc(StableSortAsc(SubSeq(s, 1, Len(s) - 1)), s[Len(s)])

\* A plausible slip: sort ascending, then reverse the result (ties reversed).
SortedReverseUnstable(s) == Reverse(StableSortAsc(s))

\* sorted(s, key=..., reverse=True): the list is reversed, sorted stably
\* ascending and reversed again, which keeps equal keys in their input order.
SortedReverse(s) == Reverse(StableSortAsc(Reverse(s)))

\* ranked = sorted(profile.items(), key=lambda x: x[1], reverse=True), as the
\* need names in ranked order; profile.items() is in insertion order.
Ranked(profile) ==
    LET items == [i \in 1..Len(NeedOrder) |-> <<profile[NeedOrder[i]], NeedOrder[i]>>]
        srt == SortedReverse(items)
    IN  [i \in 1..Len(srt) |-> srt[i][2]]

\* --------------------------------------------------------------- scorer
AnyTag(tags, group) == \E tag \in group : tag \in tags

\* A plausible slip: the boost loop runs over ranked[1:], the fourth need too.
score_tea_all_boosts(tags, ranked) ==
    LET top_need == ranked[1]
        primary == IF AnyTag(tags,
                        CASE top_need = "calm_need" -> {"calming", "soothing", "anxiety"}
                          [] top_need = "sleep_need" -> {"sleep", "night", "sedative"}
                          [] top_need = "focus_need" -> {"focus", "grounding", "clarity"}
                          [] OTHER -> {"uplift", "mood", "energize"})
                   THEN 3 ELSE 0
        boost(need) ==
            IF \/ need = "calm_need" /\ "calming" \in tags
               \/ need = "sleep_need" /\ "sleep" \in tags
               \/ need = "focus_need" /\ "focus" \in tags
               \/ need = "uplift_need" /\ "uplift" \in tags
            THEN 1 ELSE 0
    IN  primary + boost(ranked[2]) + boost(ranked[3]) + boost(ranked[4])

\* The inner function score_tea, with `ranked` of the enclosing analyze.
score_tea(tags, ranked) ==
    LET top_need == ranked[1]
        primary ==
            (IF top_need = "calm_need" /\ AnyTag(tags, {"calming", "soothing", "anxiety"}) THEN 3 ELSE 0)
          + (IF top_need = "sleep_need" /\ AnyTag(tags, {"sleep", "night", "sedative"}) THEN 3 ELSE 0)
          + (IF top_need = "focus_need" /\ AnyTag(tags, {"focus", "grounding", "clarity"}) THEN 3 ELSE 0)
          + (IF top_need = "uplift_need" /\ AnyTag(tags, {"uplift", "mood", "energize"}) THEN 3 ELSE 0)
        boost(need) ==
            (IF need = "calm_need" /\ "calming" \in tags THEN 1 ELSE 0)
          + (IF need = "sleep_need" /\ "sleep" \in tags THEN 1 ELSE 0)
          + (IF need = "focus_need" /\ "focus" \in tags THEN 1 ELSE 0)
          + (IF need = "uplift_need" /\ "uplift" \in tags THEN 1 ELSE 0)
    IN  primary + boost(ranked[2]) + boost(ranked[3])

\* The sort keys of the catalog: score_tea of each tea, in retrieval order.
Scores(teas, ranked) == [i \in 1..Len(teas) |-> score_tea(teas[i].tags, ranked)]

\* ranked_teas = sorted(teas, key=score_tea, reverse=True), as catalog positions.
RankedTeas(teas, ranked) ==
    LET sc == Scores(teas, ranked)
        srt == SortedReverse([i \in 1..Len(teas) |-> <<sc[i], i>>])
    IN  [i \in 1..Len(srt) |-> srt[i][2]]

\* A plausible slip: the slice is one too long.
Top4(s) == SubSeq(s, 1, IF Len(s) < 4 THEN Len(s) ELSE 4)

\* ranked_teas[:3]
Top3(s) == SubSeq(s, 1, IF Len(s) < 3 THEN Len(s) ELSE 3)

\* tea_keys = [t.key for t in ranked_teas[:3]] if ranked_teas else []
TeaKeys(teas, ranked) ==
    LET top == Top3(RankedTeas(teas, ranked))
    IN  [i \in 1..Len(top) |-> teas[top[i]].key]

\* ---------------------------------------------------------------- store
\* create(collectionName, record): the record is appended to the collection.
create_document(collection, doc) == Append(collection, doc)

\* query(collectionName, filter): the records whose journey_id matches, in
\* retrieval order.
get_documents(collection, journey_id) ==
    SelectSeq(collection, LAMBDA d : d.journey_id = journey_id)

\* query(collectionName, {}, limit): the first `limit` records.
get_documents_limit(collection, limit) ==
    SubSeq(collection, 1, IF Len(collection) < limit THEN Len(collection) ELSE limit)

\* The id the store gives the n-th journey created.
JourneyId(n) == <<"j1", "j2", "j3">>[n]

\* The Literal of Interaction.type: any other type fails validation.
InteractionTypes ==
    {"metaphor_pick", "spark_collect", "maze_complete", "breath_pace", "scene_choice"}

\* The catalog literal of seed_teas: key and tags of each Tea, in order.
catalog ==
    << [key |-> "chamomile", tags |-> {"calming", "sleep"}],
       [key |-> "peppermint", tags |-> {"clarity", "uplift"}],
       [key |-> "lavender", tags |-> {"calming", "sleep"}],
       [key |-> "lemonbalm", tags |-> {"calming", "uplift"}] >>

\* ------------------------------------------------------------- requests
Ev(type, value) == [type |-> type, value |-> value]

Field(k, v) == {<<k, v>>}

\* Payload shapes of each interaction type: the key the profiler reads absent,
\* with each value it tests for, and with values it does not expect.
EventShapes ==
    {Ev("metaphor_pick", v) : v \in {{}} \cup
        {Field("metaphor", PyStr(m)) : m \in {"clouds", "sparks", "roots", "stone"}}}
    \cup {Ev("spark_collect", v) : v \in {{}} \cup
        {Field("count", PyInt(n)) : n \in -1..2} \cup
        {Field("count", x) : x \in {PyStr("abc"), PyStr("2"), PyNone}}}
    \cup {Ev("maze_complete", {})}
    \cup {Ev("breath_pace", v) : v \in {{}} \cup
        {Field("pace", PyStr(p)) : p \in {"slow", "fast"}}}
    \cup {Ev("scene_choice", v) : v \in {{}} \cup
        {Field("scene", PyStr(c)) : c \in {"night", "meadow", "beach"}}}

\* A stored record of a type outside the Literal (the profiler's fallback).
UnknownEvent == Ev("quiz_answer", Field("count", PyInt(2)))

Doc(journey_id, e) == [journey_id |-> journey_id, type |-> e.type, value |-> e.value]

\* Bodies of POST /api/interaction tried against the running system.
RecordInputs ==
    {Doc(j, e) : j \in {"", "j1"},
                 e \in {Ev("metaphor_pick", Field("metaphor", PyStr("clouds"))),
                        Ev("spark_collect", Field("count", PyInt(-1))),
                        Ev("spark_collect", Field("count", PyStr("abc"))),
                        UnknownEvent}}

\* Bodies of POST /api/analyze: journey_id missing, empty, or some id.
AnalyzeInputs ==
    {[has |-> FALSE, journey_id |-> ""]} \cup
    {[has |-> TRUE, journey_id |-> j] : j \in {"", "j1"}}

\* Concurrent POST /api/seed-teas requests.
Seeders == {"s1", "s2"}

\* ------------------------------------------------------------- handlers
\* The endpoints are plain `def` functions, which FastAPI runs on a thread
\* pool: requests interleave at their store calls.  start_journey and
\* record_interaction make one store call and are one step each; analyze
\* (one request at a time here) is cut at its read of the catalog and at its
\* write, and seed_teas (two requests) at each of its store calls.  `an` holds
\* the locals of the analyze request in flight and the status of the last
\* response; seedPc[s] is 0 when request s is not running, else the index of
\* the catalog item it writes next.
Idle(resp) ==
    [pc |-> "idle", journey_id |-> "", profile |-> ZeroProfile, ranked |-> <<>>,
     teas |-> <<>>, scores |-> <<>>, tea_keys |-> <<>>, resp |-> resp]

\* POST /api/journey
start_journey(consent) ==
    /\ Len(journey) < MaxJourneys
    /\ IF ~consent
       THEN UNCHANGED journey
       ELSE journey' = create_document(journey,
                [id |-> JourneyId(Len(journey) + 1), consent |-> consent])
    /\ UNCHANGED <<interaction, tea, recommendation, an, seedPc>>

\* POST /api/interaction
record_interaction(body) ==
    /\ Len(interaction) < MaxEvents
    /\ IF body.type \notin InteractionTypes \/ body.journey_id = ""
       THEN UNCHANGED interaction
       ELSE interaction' = create_document(interaction, body)
    /\ UNCHANGED <<journey, tea, recommendation, an, seedPc>>

\* POST /api/analyze, up to the ranking of the needs: request validation, the
\* read of the journey's interactions and the profile loop.
analyze_profile(req) ==
    /\ an.pc = "idle"
    /\ Len(recommendation) < MaxRecs
    /\ IF ~req.has
       THEN an' = Idle("422")
       ELSE LET interactions == get_documents(interaction, req.journey_id)
                r == ProfileLoop(interactions, ZeroProfile)
            IN  IF r.raised
                THEN an' = Idle("500")
                ELSE an' = [Idle("none") EXCEPT !.pc = "profiled",
                                                !.journey_id = req.journey_id,
                                                !.profile = r.profile,
                                                !.ranked = Ranked(r.profile)]
    /\ UNCHANGED <<journey, interaction, tea, recommendation, seedPc>>

\* analyze, continued: the read of the catalog, the scores and the top three.
analyze_rank ==
    /\ an.pc = "profiled"
    /\ an' = [an EXCEPT !.pc = "ranked",
                        !.teas = tea,
                        !.scores = Scores(tea, an.ranked),
                        !.tea_keys = TeaKeys(tea, an.ranked)]
    /\ UNCHANGED <<journey, interaction, tea, recommendation, seedPc>>

\* A plausible slip: the journey's earlier Recommendation is replaced.
analyze_persist_upsert ==
    /\ an.pc = "ranked"
    /\ LET rec == [journey_id |-> an.journey_id, profile |-> an.profile, teas |-> an.tea_keys]
       IN  IF \E i \in 1..Len(recommendation) : recommendation[i].journey_id = rec.journey_id
           THEN recommendation' =
                    [i \in 1..Len(recommendation) |->
                        IF recommendation[i].journey_id = rec.journey_id
                        THEN rec ELSE recommendation[i]]
           ELSE recommendation' = create_document(recommendation, rec)
    /\ an' = Idle("200")
    /\ UNCHANGED <<journey, interaction, tea, seedPc>>

\* analyze, the end: the Recommendation is persisted and returned.
analyze_persist ==
    /\ an.pc = "ranked"
    /\ recommendation' = create_document(recommendation,
            [journey_id |-> an.journey_id, profile |-> an.profile, teas |-> an.tea_keys])
    /\ an' = Idle("200")
    /\ UNCHANGED <<journey, interaction, tea, seedPc>>

\* POST /api/seed-teas: the emptiness check.
seed_teas_check(s) ==
    /\ seedPc[s] = 0
    /\ LET existing == get_documents_limit(tea, 1)
       IN  IF existing # <<>>
           THEN UNCHANGED seedPc
           ELSE seedPc' = [seedPc EXCEPT ![s] = 1]
    /\ UNCHANGED <<journey, interaction, tea, recommendation, an>>

\* seed_teas: one iteration of `for t in catalog: create_document("tea", t)`.
seed_teas_write(s) ==
    /\ seedPc[s] > 0
    /\ tea' = create_document(tea, catalog[seedPc[s]])
    /\ seedPc' = [seedPc EXCEPT ![s] = IF @ = Len(catalog) THEN 0 ELSE @ + 1]
    /\ UNCHANGED <<journey, interaction, recommendation, an>>

\* ------------------------------------------------------- specifications
\* The running system, from an empty store.
Init ==
    /\ journey = <<>>
    /\ interaction = <<>>
    /\ tea = <<>>
    /\ recommendation = <<>>
    /\ an = Idle("none")
    /\ seedPc = [s \in Seeders |-> 0]

Next ==
    \/ \E consent \in BOOLEAN : start_journey(consent)
    \/ \E body \in RecordInputs : record_interaction(body)
    \/ \E req \in AnalyzeInputs : analyze_profile(req)
    \/ analyze_rank
    \/ analyze_persist
    \/ \E s \in Seeders : seed_teas_check(s)
    \/ \E s \in Seeders : seed_teas_write(s)

Spec == Init /\ [][Next]_vars
\* ---------------------------------------------------------- analyze alone
\* analyze alone, over a store that already holds interactions and a catalog:
\* the profiler, the scorer and the ranker as functions of what the store holds.
BoundedSeq(S, n) == UNION {[1..k -> S] : k \in 0..n}

\* Stored interactions: every payload shape for journey j1, one record of a
\* type outside the Literal, and one record of another journey.
CoreDocs ==
    {Doc("j1", e) : e \in EventShapes \cup {UnknownEvent}}
    \cup {Doc("j2", Ev("spark_collect", Field("count", PyInt(2))))}

\* Event sequences of journey j1 that give each need the first rank in turn,
\* with and without ties.
GenSeqs ==
    LET pick(m) == Doc("j1", Ev("metaphor_pick", Field("metaphor", PyStr(m))))
        night == Doc("j1", Ev("scene_choice", Field("scene", PyStr("night"))))
        maze == Doc("j1", Ev("maze_complete", {}))
        spark(v) == Doc("j1", Ev("spark_collect", v))
    IN  { <<>>,
          <<night>>,
          <<maze, pick("sparks")>>,
          <<pick("roots"), night>>,
          <<spark(Field("count", PyInt(2))), pick("clouds")>>,
          <<spark(Field("count", PyInt(-1)))>>,
          <<night, spark({})>> }

\* Every tag score_tea tests for, and one it does not.
AllTags ==
    {"calming", "soothing", "anxiety", "sleep", "night", "sedative",
     "focus", "grounding", "clarity", "uplift", "mood", "energize", "herbal"}

\* The teas of the seed catalog, in any order and number, repeated or not.
TeaKinds == {catalog[i] : i \in 1..Len(catalog)}

InitCore ==
    /\ journey = <<>>
    /\ recommendation = <<>>
    /\ an = Idle("none")
    /\ seedPc = [s \in Seeders |-> 0]
    /\ \/ /\ interaction \in BoundedSeq(CoreDocs, MaxEvents)
          /\ tea = catalog
       \/ /\ interaction \in GenSeqs
          /\ tea \in BoundedSeq(TeaKinds, MaxCatalog)
       \/ /\ interaction \in GenSeqs
          /\ \E tags \in {T \in SUBSET AllTags : Cardinality(T) <= MaxTags} :
                tea = <<[key |-> "blend", tags |-> tags]>>

NextCore ==
    \/ \E req \in AnalyzeInputs : analyze_profile(req)
    \/ analyze_rank
    \/ analyze_persist

SpecCore == InitCore /\ [][NextCore]_vars
\* ----------------------------------------------------------- properties
Needs == {NeedOrder[i] : i \in 1..Len(NeedOrder)}

Computed == an.pc \in {"profiled", "ranked"}

\* The delta one event contributes by the table of section 4.1.
TableDelta(it) ==
    LET has(k) == \E p \in it.value : p[1] = k
        str(k) == IF has(k) THEN DictGet(it.value, k, PyNone).s ELSE "(missing)"
        d(need, k) == [ZeroProfile EXCEPT ![need] = k]
    IN  CASE it.type = "metaphor_pick" /\ str("metaphor") = "clouds" -> d("calm_need", 2)
          [] it.type = "metaphor_pick" /\ str("metaphor") = "sparks" -> d("uplift_need", 2)
          [] it.type = "metaphor_pick" /\ str("metaphor") = "roots" -> d("focus_need", 2)
          [] it.type = "spark_collect" /\ ~has("count") -> d("uplift_need", 1)
          [] it.type = "spark_collect" /\ has("count") ->
                d("uplift_need", DictGet(it.value, "count", PyNone).n)
          [] it.type = "maze_complete" -> d("focus_need", 1)
          [] it.type = "breath_pace" /\ str("pace") \in {"slow", "(missing)"} -> d("sleep_need", 1)
          [] it.type = "breath_pace" -> d("calm_need", 1)
          [] it.type = "scene_choice" /\ str("scene") = "night" -> d("sleep_need", 1)
          [] it.type = "scene_choice" /\ str("scene") = "meadow" -> d("calm_need", 1)
          [] OTHER -> ZeroProfile

RECURSIVE TableSum(_)
TableSum(its) ==
    IF its = <<>> THEN ZeroProfile
    ELSE LET rest == TableSum(Tail(its))
             d == TableDelta(Head(its))
         IN  [n \in Needs |-> rest[n] + d[n]]

\* spark_collect count absent or a non-negative integer.
WellFormed(it) ==
    it.type = "spark_collect" =>
        \A p \in it.value : p[1] = "count" => p[2].t = "int" /\ p[2].n >= 0

AllWellFormed(its) == \A i \in 1..Len(its) : WellFormed(its[i])

EventsOf(journey_id) == get_documents(interaction, journey_id)

\* C1: the profile analyze computes for a journey whose stored events are well
\* formed is, field by field, the sum of the table's per-event deltas (all zero
\* for no events), and analyze does not fail on such events.
C1_ProfileIsTableSum ==
    /\ Computed /\ AllWellFormed(EventsOf(an.journey_id))
          => an.profile = TableSum(EventsOf(an.journey_id))
    /\ \A i \in 1..Len(recommendation) :
          LET r == recommendation[i]
          IN  AllWellFormed(EventsOf(r.journey_id)) => r.profile = TableSum(EventsOf(r.journey_id))
    /\ AllWellFormed(interaction) => an.resp # "500"

C1_Witness ==
    \E i \in 1..Len(recommendation) :
        LET r == recommendation[i]
        IN  /\ r.journey_id = "j1"
            /\ Len(EventsOf("j1")) = 2
            /\ AllWellFormed(EventsOf("j1"))
            /\ r.profile = [calm_need |-> 2, focus_need |-> 0, uplift_need |-> 0, sleep_need |-> 1]

NonNegative(profile) == \A n \in Needs : profile[n] \in Nat

\* C2: every field of every profile analyze computes from accepted events is a
\* non-negative integer, and a later analysis of the same journey, run over
\* more recorded events, lowers no field.
C2_ProfileNonNegativeMonotone ==
    /\ Computed => NonNegative(an.profile)
    /\ \A i \in 1..Len(recommendation) : NonNegative(recommendation[i].profile)
    /\ \A i, j \in 1..Len(recommendation) :
          i < j /\ recommendation[i].journey_id = recommendation[j].journey_id
             => \A n \in Needs : recommendation[i].profile[n] <= recommendation[j].profile[n]

\* count absent, or present and not numeric (a non-decimal str, None).
CountDefaults(it) ==
    \A p \in it.value : p[1] = "count" => p[2].t # "int" /\ PyIntConv(p[2]).raised

\* C3: a stored spark_collect event with no count, or a non-numeric count, is
\* counted as 1: analyze reports no error and the event adds 1 to uplift only.
C3_SparkCountDefaultsToOne ==
    LET lenient(it) == WellFormed(it) \/ (it.type = "spark_collect" /\ CountDefaults(it))
        asOne(it) == IF it.type = "spark_collect" /\ CountDefaults(it)
                     THEN [it EXCEPT !.value = {}] ELSE it
        table(its) == TableSum([i \in 1..Len(its) |-> asOne(its[i])])
    IN  /\ (\A i \in 1..Len(interaction) : lenient(interaction[i])) => an.resp # "500"
        /\ Computed /\ (\A i \in 1..Len(EventsOf(an.journey_id)) : lenient(EventsOf(an.journey_id)[i]))
              => an.profile = table(EventsOf(an.journey_id))
Min(a, b) == IF a < b THEN a ELSE b

KeysOf(teas) == {teas[i].key : i \in 1..Len(teas)}

\* C4: the teas list analyze computes has length min(3, number of catalog
\* items) and names only keys of the catalog it read (so it is empty for an
\* empty catalog), and so does every Recommendation persisted from it.
C4_TeasLengthAndMembership ==
    /\ an.pc = "ranked" =>
          /\ Len(an.tea_keys) = Min(3, Len(an.teas))
          /\ \A i \in 1..Len(an.tea_keys) : an.tea_keys[i] \in KeysOf(an.teas)
    /\ \A i \in 1..Len(recommendation) :
          /\ Len(recommendation[i].teas) = Min(3, Len(tea))
          /\ \A k \in 1..Len(recommendation[i].teas) : recommendation[i].teas[k] \in KeysOf(tea)

\* A Recommendation of three teas out of a longer catalog.
C4_Witness ==
    /\ Len(tea) > 3
    /\ \E i \in 1..Len(recommendation) :
          /\ Len(recommendation[i].teas) = 3
          /\ recommendation[i].profile # ZeroProfile

\* C5: the teas list is in score order, highest first, equal scores in the
\* order the catalog query returned them, and no item left out of it scores
\* higher than one in it: the list is the keys of catalog positions pos with
\* pos[a] before pos[b] only if score(pos[a]) > score(pos[b]), or the scores
\* are equal and pos[a] < pos[b].
C5_TeasByScoreStable ==
    an.pc = "ranked" =>
        \E pos \in [1..Len(an.tea_keys) -> 1..Len(an.teas)] :
            /\ \A a \in DOMAIN pos : an.tea_keys[a] = an.teas[pos[a]].key
            /\ \A a, b \in DOMAIN pos :
                  a < b => \/ an.scores[pos[a]] > an.scores[pos[b]]
                           \/ /\ an.scores[pos[a]] = an.scores[pos[b]]
                              /\ pos[a] < pos[b]
            /\ \A out \in 1..Len(an.teas) :
                  (\A a \in DOMAIN pos : pos[a] # out) =>
                      \A a \in DOMAIN pos : an.scores[out] <= an.scores[pos[a]]

\* Two teas of different keys tie inside the list, a third scores less, and a
\* catalog item is left out.
C5_Witness ==
    /\ an.pc = "ranked"
    /\ Len(an.teas) > 3
    /\ \E i, j, k \in 1..Len(an.teas) :
          /\ i < j
          /\ an.scores[i] = an.scores[j]
          /\ an.scores[k] < an.scores[i]
          /\ k < i
          /\ an.teas[i].key # an.teas[j].key
          /\ an.tea_keys = <<an.teas[i].key, an.teas[j].key, an.teas[k].key>>

\* The tag group and the single designated tag of each need.
TagGroup(need) ==
    CASE need = "calm_need" -> {"calming", "soothing", "anxiety"}
      [] need = "sleep_need" -> {"sleep", "night", "sedative"}
      [] need = "focus_need" -> {"focus", "grounding", "clarity"}
      [] need = "uplift_need" -> {"uplift", "mood", "energize"}

DesignatedTag(need) ==
    CASE need = "calm_need" -> "calming"
      [] need = "sleep_need" -> "sleep"
      [] need = "focus_need" -> "focus"
      [] need = "uplift_need" -> "uplift"

NeedIndex(need) == CHOOSE i \in 1..Len(NeedOrder) : NeedOrder[i] = need

\* C6: the needs are ranked by value, highest first, equal values in the order
\* calm, focus, uplift, sleep (all zero: calm first, then focus and uplift);
\* every catalog item scores 3 if its tags meet the primary need's tag group,
\* plus 1 for each of the two secondary needs whose designated tag it has;
\* the fourth need adds nothing and the score is in 0..5.
C6_RankingAndScore ==
    /\ Computed =>
          /\ Len(an.ranked) = 4
          /\ {an.ranked[i] : i \in 1..4} = Needs
          /\ \A a, b \in 1..4 :
                a < b => \/ an.profile[an.ranked[a]] > an.profile[an.ranked[b]]
                         \/ /\ an.profile[an.ranked[a]] = an.profile[an.ranked[b]]
                            /\ NeedIndex(an.ranked[a]) < NeedIndex(an.ranked[b])
          /\ an.profile = ZeroProfile =>
                an.ranked = <<"calm_need", "focus_need", "uplift_need", "sleep_need">>
    /\ an.pc = "ranked" =>
          /\ Len(an.scores) = Len(an.teas)
          /\ \A i \in 1..Len(an.teas) :
                LET tags == an.teas[i].tags
                    primary == IF tags \cap TagGroup(an.ranked[1]) # {} THEN 3 ELSE 0
                    second(k) == IF DesignatedTag(an.ranked[k]) \in tags THEN 1 ELSE 0
                IN  /\ an.scores[i] = primary + second(2) + second(3)
                    /\ an.scores[i] \in 0..5

\* An item with the top score 5 under a profile that is not all zero.
C6_Witness ==
    /\ an.pc = "ranked"
    /\ \E i \in 1..Len(an.teas) : an.scores[i] = 5
    /\ an.profile # ZeroProfile

\* An item that has the fourth need's designated tag and scores 0.
C6_WitnessFourth ==
    /\ an.pc = "ranked"
    /\ \E i \in 1..Len(an.teas) :
          /\ DesignatedTag(an.ranked[4]) \in an.teas[i].tags
          /\ an.scores[i] = 0
SameResult(r1, r2) == r1.profile = r2.profile /\ r1.teas = r2.teas

C7_EventsOnlyForConsentedJourneys ==
    \A i \in 1..Len(interaction) :
        \E k \in 1..Len(journey) :
            journey[k].id = interaction[i].journey_id /\ journey[k].consent

\* C8: analyze fails for an empty journey identifier: no Recommendation is
\* persisted for the journey_id "".
C8_NoRecommendationForEmptyJourneyId ==
    \A i \in 1..Len(recommendation) : recommendation[i].journey_id # ""

\* C9: the catalog holds at most one item per key.
C9_CatalogKeysUnique ==
    \A i, j \in 1..Len(tea) : i # j => tea[i].key # tea[j].key
====
